---------------------------- MODULE Spec2Model ----------------------------
(***************************************************************************)
(* A model of shadow-rs' generator, src/src/lib.rs: Shadow::build and the  *)
(* methods it calls (get_env, try_ci, gen_const, write_header,             *)
(* write_const, write_version).                                            *)
(*                                                                         *)
(* Strings the code inspects or transforms character by character (the     *)
(* output path, the keys, the values) are sequences of one-character       *)
(* strings.  Strings the code only compares or copies (environment         *)
(* variables, descriptions) are TLA+ strings.                              *)
(*                                                                         *)
(* One behaviour is one call of Shadow::build(src_path, out_path).  The    *)
(* world the call runs in (the process environment, the repository, what   *)
(* the three fact providers return) is chosen in Init and never changes.   *)
(***************************************************************************)
EXTENDS Naturals, Sequences, FiniteSets

VARIABLES
    out_path,     \* build's argument out_path
    environ,      \* the process environment, std_env::vars()
    repo_ok,      \* whether src_path holds a repository with a commit
    git_tbl,      \* what new_git returns
    project_tbl,  \* what new_project returns
    sys_tbl,      \* what new_system_env returns
    pc,           \* the position of build
    out,          \* the path handed to File::create, <<>> before that
    std_env,      \* Shadow.std_env
    ci_type,      \* the local ci_type of build
    map,          \* the local map of build, then Shadow.map
    todo,         \* gen_const: the keys the iterator has yet to yield
    order,        \* gen_const: the keys the iterator has yielded, in order
    f,            \* Shadow.f: the lines written to the file, in order
    result        \* what build returned, "none" while it runs

vars == <<out_path, environ, repo_ok, git_tbl, project_tbl, sys_tbl, pc, out,
          std_env, ci_type, map, todo, order, f, result>>

world == <<out_path, environ, repo_ok, git_tbl, project_tbl, sys_tbl>>

---------------------------------------------------------------------------
(* Bounds *)

\* The longest value of the TAG fact the repository provider is given.
MaxValLen == 2

---------------------------------------------------------------------------
(* Characters and strings *)

LowerCase == <<"a","b","c","d","e","f","g","h","i","j","k","l","m",
               "n","o","p","q","r","s","t","u","v","w","x","y","z">>

UpperCase == <<"A","B","C","D","E","F","G","H","I","J","K","L","M",
               "N","O","P","Q","R","S","T","U","V","W","X","Y","Z">>

\* char::to_ascii_uppercase
UpperChar(c) ==
    IF \E i \in DOMAIN LowerCase : LowerCase[i] = c
    THEN UpperCase[CHOOSE i \in DOMAIN LowerCase : LowerCase[i] = c]
    ELSE c

\* str::to_ascii_uppercase
ToAsciiUppercase(s) == [i \in DOMAIN s |-> UpperChar(s[i])]

\* str::ends_with(char)
EndsWith(s, c) == Len(s) > 0 /\ s[Len(s)] = c

\* Path::is_absolute, on unix
IsAbsolute(p) == Len(p) > 0 /\ p[1] = "/"

\* Path::join (PathBuf::push), on unix: an absolute argument replaces the
\* base, a relative one is appended after a separator.
PathJoin(base, p) ==
    IF IsAbsolute(p) THEN p
    ELSE IF base = <<>> \/ EndsWith(base, "/") THEN base \o p
    ELSE base \o <<"/">> \o p

SHADOW_RS == <<"s","h","a","d","o","w",".","r","s">>

\* build, the block computing `out`: without a trailing '/', out_path is
\* joined with format!("{}/{}", out_path, SHADOW_RS)
OutFile(p) ==
    IF ~EndsWith(p, "/")
    THEN PathJoin(p, p \o <<"/">> \o SHADOW_RS)
    ELSE PathJoin(p, SHADOW_RS)

---------------------------------------------------------------------------
(* The environment and the CI detector *)

Absent == "<absent>"

GetOpt(m, k) == IF k \in DOMAIN m THEN m[k] ELSE Absent

\* get_env: every pair of std_env::vars() inserted into a fresh map
GetEnv(e) == [k \in DOMAIN e |-> e[k]]

TryCiGithubFirst(env) ==
    IF GetOpt(env, "GITHUB_ACTIONS") = "true" THEN "Github"
    ELSE IF GetOpt(env, "GITLAB_CI") = "true" THEN "Gitlab"
    ELSE "None"

\* try_ci
TryCi(env) ==
    IF GetOpt(env, "GITLAB_CI") = "true" THEN "Gitlab"
    ELSE IF GetOpt(env, "GITHUB_ACTIONS") = "true" THEN "Github"
    ELSE "None"

---------------------------------------------------------------------------
(* The fact tables *)

\* The key write_version looks up
TAG == <<"T","A","G">>

BRANCH == <<"B","R","A","N","C","H">>

\* A key that is not upper case already
LowerCaseKey == <<"o","s">>

Keys == {BRANCH, TAG, LowerCaseKey}

\* ConstType
ConstTypes == {"Str", "OptStr"}

\* ConstType::Str.to_string(), the type the constant is declared with
ConstTypeToString(t) == "&str"

\* ConstVal
ConstVal(desc, v, t) == [desc |-> desc, v |-> v, t |-> t]

EmptyTable == [k \in {} |-> ConstVal("", <<>>, "Str")]

InsertKeepsOld(m, k, val) ==
    [x \in DOMAIN m \cup {k} |-> IF x \in DOMAIN m THEN m[x] ELSE val]

\* HashMap::insert: the new value replaces an old one
Insert(m, k, val) ==
    [x \in DOMAIN m \cup {k} |-> IF x = k THEN val ELSE m[x]]

\* for (k, v) in table { map.insert(k, v); }
RECURSIVE InsertFrom(_, _, _)
InsertFrom(m, table, ks) ==
    IF ks = {} THEN m
    ELSE LET k == CHOOSE x \in ks : TRUE
         IN  InsertFrom(Insert(m, k, table[k]), table, ks \ {k})

InsertAll(m, table) == InsertFrom(m, table, DOMAIN table)

---------------------------------------------------------------------------
(* The lines written to the file *)

Line(kind, name, ty, lit, text, args) ==
    [kind |-> kind, name |-> name, ty |-> ty, lit |-> lit, text |-> text,
     args |-> args]

\* write_header: the banner (its creation time is left out)
HeaderLine ==
    Line("header", <<>>, "", <<>>,
         "/// Code generated by shadow-rs generator. DO NOT EDIT.", <<>>)

\* write_const: format!("/// {}", val.desc)
DescLine(desc) == Line("desc", <<>>, "", <<>>, desc, <<>>)

\* the raw string literal r#"{}"# of write_const's format
RawLit(v) == <<"r", "#", "\"">> \o v \o <<"\"", "#">>

\* write_const: the value rendered for an entry
RenderedValue(val) == IF val.t = "OptStr" THEN <<>> ELSE val.v

\* write_const: pub const {} :{} = r#"{}"#;
DefineLine(k, val) ==
    Line("define", ToAsciiUppercase(k), ConstTypeToString("Str"),
         RawLit(RenderedValue(val)), "pub const", <<>>)

VERSION_BRANCH_FN ==
    [label |-> "branch:",
     args  |-> <<"PKG_VERSION", "BRANCH", "SHORT_COMMIT", "BUILD_TIME",
                 "RUST_VERSION", "RUST_CHANNEL">>]

VERSION_TAG_FN ==
    [label |-> "tag:",
     args  |-> <<"PKG_VERSION", "TAG", "SHORT_COMMIT", "BUILD_TIME",
                 "RUST_VERSION", "RUST_CHANNEL">>]

VersionFnAnyTag(m) ==
    IF TAG \notin DOMAIN m THEN VERSION_BRANCH_FN ELSE VERSION_TAG_FN

\* write_version: match self.map.get(TAG)
VersionFn(m) ==
    IF TAG \notin DOMAIN m THEN VERSION_BRANCH_FN
    ELSE IF m[TAG].v # <<>> THEN VERSION_TAG_FN
    ELSE VERSION_BRANCH_FN

VersionDescLine ==
    Line("version_desc", <<>>, "", <<>>,
         "/// The common version method. It's so easy to use this method",
         <<>>)

VersionFnLine(tmpl) ==
    Line("version_fn", <<>>, "", <<>>, tmpl.label, tmpl.args)

---------------------------------------------------------------------------
(* The inputs of a run *)

RECURSIVE SeqsUpTo(_, _)
SeqsUpTo(S, n) ==
    IF n = 0 THEN {<<>>}
    ELSE LET shorter == SeqsUpTo(S, n - 1)
         IN  shorter \cup {Append(s, c) : s \in shorter, c \in S}

\* The characters of a value: a plain one, and the two of the raw string's
\* closing delimiter
ValChars == {"v", "\"", "#"}

Values == SeqsUpTo(ValChars, MaxValLen)

\* Every table a provider can return over the keys ks, each entry drawn
\* from entries
TablesOver(ks, entries) == UNION {[S -> entries] : S \in SUBSET ks}

\* What a provider returns is an input here: new_git, new_project and
\* new_system_env are called by build and defined elsewhere.  The
\* repository provider's TAG entry takes every type and value; the other
\* entries are one fact per provider.
GitFact == ConstVal("display current branch or tag", <<"v">>, "Str")

ProjectFact == ConstVal("display project fact", <<"v", "v">>, "Str")

SysFact == ConstVal("display system fact", <<"v", "#">>, "Str")

TagEntries == {ConstVal("display current tag", v, t) : v \in Values, t \in ConstTypes}

GitTables ==
    {InsertAll(rest, tag) :
        rest \in TablesOver({BRANCH, LowerCaseKey}, {GitFact}),
        tag \in TablesOver({TAG}, TagEntries)}

ProjectTables == TablesOver(Keys, {ProjectFact})

SysTables == TablesOver(Keys, {SysFact})

EnvNames == {"GITLAB_CI", "GITHUB_ACTIONS"}

EnvValues == {"true", "false", "1"}

Environs == UNION {[S -> EnvValues] : S \in SUBSET EnvNames}

OutPaths ==
    { <<".", "/">>,
      <<".", "/", "o", "u", "t">>,
      <<".", "/", "o", "u", "t", "/">>,
      <<"o", "u", "t">>,
      <<"/", "o", "u", "t">>,
      <<"/", "o", "u", "t", "/">> }

DefaultGitTable ==
    [k \in {BRANCH, TAG} |->
        IF k = TAG THEN ConstVal("display current tag", <<>>, "OptStr")
        ELSE GitFact]

DefaultProjectTable == [k \in {LowerCaseKey} |-> ProjectFact]

Input(p, e, r, g, pr, sy) ==
    [out_path |-> p, environ |-> e, repo_ok |-> r, git |-> g, project |-> pr,
     sys |-> sy]

\* Runs that vary the path, the environment and the repository
WorldInputs ==
    {Input(p, e, r, IF r THEN DefaultGitTable ELSE EmptyTable,
           DefaultProjectTable, EmptyTable) :
        p \in OutPaths, e \in Environs, r \in BOOLEAN}

\* Runs that vary what the three providers return
TableInputs ==
    {Input(<<".", "/">>, [k \in {} |-> "true"], TRUE, g, pr, sy) :
        g \in GitTables, pr \in ProjectTables, sy \in SysTables}

Inputs == WorldInputs \cup TableInputs

---------------------------------------------------------------------------
(* Shadow::build *)

Init ==
    /\ \E in \in Inputs :
          /\ out_path = in.out_path
          /\ environ = in.environ
          /\ repo_ok = in.repo_ok
          /\ git_tbl = in.git
          /\ project_tbl = in.project
          /\ sys_tbl = in.sys
    /\ pc = "create"
    /\ out = <<>>
    /\ std_env = [k \in {} |-> "true"]
    /\ ci_type = "None"
    /\ map = EmptyTable
    /\ todo = {}
    /\ order = <<>>
    /\ f = <<>>
    /\ result = "none"

\* A `?` on an io::Error: build returns it
Fail ==
    /\ pc' = "done"
    /\ result' = "IoError"

\* f: File::create(out)?
Create ==
    /\ pc = "create"
    /\ out' = OutFile(out_path)
    /\ \/ /\ pc' = "env"
          /\ UNCHANGED result
       \/ Fail
    /\ UNCHANGED <<world, std_env, ci_type, map, todo, order, f>>

\* shadow.std_env = Self::get_env(); let ci_type = shadow.try_ci();
Detect ==
    /\ pc = "env"
    /\ std_env' = GetEnv(environ)
    /\ ci_type' = TryCi(std_env')
    /\ pc' = "git"
    /\ UNCHANGED <<world, out, map, todo, order, f, result>>

\* let mut map = new_git(&src_path, ci_type, &shadow.std_env);
\* new_git returns a map, whatever the state of the repository
NewGit ==
    /\ pc = "git"
    /\ map' = git_tbl
    /\ pc' = "project"
    /\ UNCHANGED <<world, out, std_env, ci_type, todo, order, f, result>>

\* for (k, v) in new_project(&shadow.std_env) { map.insert(k, v); }
NewProject ==
    /\ pc = "project"
    /\ map' = InsertAll(map, project_tbl)
    /\ pc' = "system"
    /\ UNCHANGED <<world, out, std_env, ci_type, todo, order, f, result>>

\* for (k, v) in new_system_env(&shadow.std_env) { map.insert(k, v); }
\* shadow.map = map;
NewSystemEnv ==
    /\ pc = "system"
    /\ map' = InsertAll(map, sys_tbl)
    /\ pc' = "header"
    /\ UNCHANGED <<world, out, std_env, ci_type, todo, order, f, result>>

\* gen_const: self.write_header()?; then the iterator over self.map.clone()
WriteHeader ==
    /\ pc = "header"
    /\ \/ /\ f' = Append(f, HeaderLine)
          /\ todo' = DOMAIN map
          /\ pc' = "const"
          /\ UNCHANGED result
       \/ /\ Fail
          /\ UNCHANGED <<f, todo>>
    /\ UNCHANGED <<world, out, std_env, ci_type, map, order>>

\* gen_const: the keys the HashMap's iterator may yield next; the order of
\* a HashMap's iteration is unspecified
NextKeys(ks) == ks

\* gen_const: one turn of the loop, self.write_const(k, v)?, with its two
\* writeln!
WriteConst ==
    /\ pc = "const"
    /\ \E k \in NextKeys(todo) :
          /\ todo' = todo \ {k}
          /\ order' = Append(order, k)
          /\ \/ /\ f' = f \o <<DescLine(map[k].desc), DefineLine(k, map[k])>>
                /\ UNCHANGED <<pc, result>>
             \/ /\ f' = Append(f, DescLine(map[k].desc))
                /\ Fail
             \/ /\ UNCHANGED f
                /\ Fail
    /\ UNCHANGED <<world, out, std_env, ci_type, map>>

GenConstLeavesEarly == TRUE

\* gen_const: the loop is over
GenConstDone == todo = {}

\* shadow.write_version()?; Ok(())
WriteVersion ==
    /\ pc = "const"
    /\ GenConstDone
    /\ \/ /\ f' = f \o <<VersionDescLine, VersionFnLine(VersionFn(map))>>
          /\ pc' = "done"
          /\ result' = "Ok"
       \/ /\ f' = Append(f, VersionDescLine)
          /\ Fail
       \/ /\ UNCHANGED f
          /\ Fail
    /\ UNCHANGED <<world, out, std_env, ci_type, map, todo, order>>

Next ==
    \/ Create
    \/ Detect
    \/ NewGit
    \/ NewProject
    \/ NewSystemEnv
    \/ WriteHeader
    \/ WriteConst
    \/ WriteVersion

Spec == Init /\ [][Next]_vars

---------------------------------------------------------------------------
(* What the properties below read off a state *)

Range(s) == {s[i] : i \in DOMAIN s}

LinesOf(kind) == {i \in DOMAIN f : f[i].kind = kind}

\* build ran past the merge of the three tables
Merged == pc \in {"header", "const"} \/ result = "Ok"

\* gen_const returned Ok
ConstantsWritten == (pc = "const" /\ todo = {}) \/ result = "Ok"

\* Where a Rust lexer ends the raw string literal r#"..."#: at the first
\* double quote that a '#' follows
FirstClose(lit) ==
    CHOOSE i \in 4 .. (Len(lit) - 1) :
        /\ lit[i] = "\"" /\ lit[i + 1] = "#"
        /\ \A j \in 4 .. (i - 1) : ~(lit[j] = "\"" /\ lit[j + 1] = "#")

\* The string a Rust lexer reads between the delimiters
RawStrBody(lit) == SubSeq(lit, 4, FirstClose(lit) - 1)

\* The literal ends before its last two characters: text follows it
TerminatedEarly(lit) == FirstClose(lit) + 1 < Len(lit)

\* The value holds the closing delimiter, a double quote followed by '#'
HasDelimiter(v) ==
    \E i \in 1 .. (Len(v) - 1) : v[i] = "\"" /\ v[i + 1] = "#"

AsciiCode(c) ==
    IF \E i \in DOMAIN UpperCase : UpperCase[i] = c
    THEN 64 + (CHOOSE i \in DOMAIN UpperCase : UpperCase[i] = c)
    ELSE IF \E i \in DOMAIN LowerCase : LowerCase[i] = c
    THEN 96 + (CHOOSE i \in DOMAIN LowerCase : LowerCase[i] = c)
    ELSE 0

\* s < t in the lexicographic order of str
LexLess(s, t) ==
    \E n \in 0 .. Len(s) :
        /\ n <= Len(t)
        /\ \A i \in 1 .. n : s[i] = t[i]
        /\ \/ (n = Len(s) /\ n < Len(t))
           \/ (n < Len(s) /\ n < Len(t)
               /\ AsciiCode(s[n + 1]) < AsciiCode(t[n + 1]))

\* The names of a path the file system walks: the pieces between '/',
\* without the empty ones and without "."
RECURSIVE Components(_)
Components(p) ==
    IF p = <<>> THEN <<>>
    ELSE LET seps == {i \in DOMAIN p : p[i] = "/"}
             cut  == IF seps = {} THEN Len(p) + 1
                     ELSE CHOOSE i \in seps : \A j \in seps : i <= j
             head == SubSeq(p, 1, cut - 1)
             rest == Components(SubSeq(p, cut + 1, Len(p)))
         IN  IF head = <<>> \/ head = <<".">> THEN rest ELSE <<head>> \o rest

\* The file a path names
Resolve(p) == [absolute |-> IsAbsolute(p), names |-> Components(p)]

---------------------------------------------------------------------------
(* Properties *)

\* C1: write_version emits the tag-flavoured template (label "tag:",
\* referencing TAG) exactly when the merged table holds a TAG entry with a
\* non-empty value; otherwise it emits the branch-flavoured template (label
\* "branch:", referencing BRANCH).
C1_VersionTemplate ==
    \A i \in LinesOf("version_fn") :
        LET tagged == TAG \in DOMAIN map /\ Len(map[TAG].v) > 0
        IN  /\ tagged =>
                /\ f[i].text = "tag:"
                /\ "TAG" \in Range(f[i].args)
                /\ "BRANCH" \notin Range(f[i].args)
            /\ ~tagged =>
                /\ f[i].text = "branch:"
                /\ "BRANCH" \in Range(f[i].args)
                /\ "TAG" \notin Range(f[i].args)

C1_Witness ==
    /\ LinesOf("version_fn") # {}
    /\ TAG \in DOMAIN map
    /\ map[TAG].t = "Str"
    /\ Len(map[TAG].v) = 2
    /\ f[Len(f)].text = "tag:"

\* C2: the tables are inserted in the order VCS, project, system
\* environment: after each insertion a key holds the entry of the last
\* table so far that defines it, and a key only one table defines keeps
\* that table's entry.
C2_LastWriterWins ==
    /\ pc = "project" => map = git_tbl
    /\ pc = "system" =>
          /\ DOMAIN map = DOMAIN git_tbl \cup DOMAIN project_tbl
          /\ \A k \in DOMAIN map :
                map[k] = IF k \in DOMAIN project_tbl THEN project_tbl[k]
                         ELSE git_tbl[k]
    /\ Merged =>
          /\ DOMAIN map =
                DOMAIN git_tbl \cup DOMAIN project_tbl \cup DOMAIN sys_tbl
          /\ \A k \in DOMAIN map :
                map[k] = IF k \in DOMAIN sys_tbl THEN sys_tbl[k]
                         ELSE IF k \in DOMAIN project_tbl THEN project_tbl[k]
                         ELSE git_tbl[k]

C2_Witness ==
    /\ pc = "header"
    /\ TAG \in DOMAIN git_tbl /\ TAG \in DOMAIN project_tbl
    /\ TAG \in DOMAIN sys_tbl
    /\ BRANCH \in DOMAIN git_tbl /\ BRANCH \in DOMAIN project_tbl
    /\ BRANCH \notin DOMAIN sys_tbl
    /\ LowerCaseKey \in DOMAIN git_tbl
    /\ LowerCaseKey \notin DOMAIN project_tbl
    /\ LowerCaseKey \notin DOMAIN sys_tbl
    /\ map[TAG] = sys_tbl[TAG]
    /\ map[BRANCH] = project_tbl[BRANCH]
    /\ map[LowerCaseKey] = git_tbl[LowerCaseKey]

\* C3: try_ci returns Gitlab when GITLAB_CI is "true" (whatever
\* GITHUB_ACTIONS is), Github when GITLAB_CI is not "true" and
\* GITHUB_ACTIONS is "true", and None otherwise, also when an indicator is
\* set to another value.
C3_TryCi ==
    LET gitlab == "GITLAB_CI" \in DOMAIN environ
                  /\ environ["GITLAB_CI"] = "true"
        github == "GITHUB_ACTIONS" \in DOMAIN environ
                  /\ environ["GITHUB_ACTIONS"] = "true"
    IN  (pc \in {"git", "project", "system"} \/ Merged) =>
            /\ gitlab => ci_type = "Gitlab"
            /\ (~gitlab /\ github) => ci_type = "Github"
            /\ (~gitlab /\ ~github) => ci_type = "None"

C3_Witness ==
    /\ pc = "git"
    /\ DOMAIN environ = {"GITLAB_CI", "GITHUB_ACTIONS"}
    /\ environ["GITLAB_CI"] = "true"
    /\ environ["GITHUB_ACTIONS"] = "true"
    /\ ci_type = "Gitlab"

\* C4: the constants are written in ascending lexicographic order of key:
\* of two keys written, the one written first is the smaller.
C4_SortedByKey ==
    \A i, j \in DOMAIN order : i < j => LexLess(order[i], order[j])

\* C5: after the constant block is written, every key of the merged table
\* appears exactly once in it, under its upper-cased name, and the string
\* between the quoting delimiters of that constant is the entry's value.
C5_RoundTrip ==
    ConstantsWritten =>
        \A k \in DOMAIN map :
            LET defs == {i \in LinesOf("define") :
                            f[i].name = ToAsciiUppercase(k)}
            IN  /\ Cardinality(defs) = 1
                /\ \A i \in defs :
                      /\ RawStrBody(f[i].lit) = map[k].v
                      /\ ~TerminatedEarly(f[i].lit)

\* C6: when a value of the merged table holds the closing delimiter, no
\* constant whose raw string ends early is written, and generation does
\* not return Ok.
C6_DelimiterCollisionFails ==
    (Merged /\ \E k \in DOMAIN map : HasDelimiter(map[k].v)) =>
        /\ \A i \in LinesOf("define") : ~TerminatedEarly(f[i].lit)
        /\ result # "Ok"

\* C7: for an output directory D, with or without a trailing '/', the file
\* build creates is D/shadow.rs.
C7_SamePath ==
    pc # "create" =>
        Resolve(out) = Resolve(out_path \o <<"/">> \o SHADOW_RS)

\* C8: when the source path holds no repository with a commit, build
\* returns an error and writes neither a constant nor the version function.
C8_RepositoryUnavailableIsFatal ==
    ~repo_ok =>
        /\ result # "Ok"
        /\ LinesOf("define") = {}
        /\ LinesOf("version_fn") = {}

\* The phase of build a line belongs to
Phase(line) ==
    IF line.kind = "header" THEN 1
    ELSE IF line.kind \in {"desc", "define"} THEN 2
    ELSE 3

\* C9: the file holds the header once, then the constants, then the
\* version function once; the version function is written only after every
\* constant; a successful run writes all three; a failed run never writes
\* the version function.
C9_WriteOrder ==
    /\ \A i, j \in DOMAIN f : i < j => Phase(f[i]) <= Phase(f[j])
    /\ f # <<>> => (f[1].kind = "header" /\ LinesOf("header") = {1})
    /\ Cardinality(LinesOf("version_fn")) <= 1
    /\ Cardinality(LinesOf("version_desc")) <= 1
    /\ (\E i \in DOMAIN f : Phase(f[i]) = 3) =>
          /\ Cardinality(LinesOf("define")) = Cardinality(DOMAIN map)
          /\ Cardinality(LinesOf("desc")) = Cardinality(DOMAIN map)
    /\ result = "Ok" =>
          /\ Len(f) = 3 + 2 * Cardinality(DOMAIN map)
          /\ f[Len(f)].kind = "version_fn"
    /\ result = "IoError" => LinesOf("version_fn") = {}

C9_Witness ==
    /\ result = "Ok"
    /\ DOMAIN map = Keys
    /\ f[1].kind = "header"
    /\ f[7].kind = "define"
    /\ f[9].kind = "version_fn"

\* C10: whenever the tag-flavoured template is written, the constant block
\* defines a TAG constant whose value is non-empty and is the TAG value of
\* the merged table.
C10_TagConstantMatches ==
    (\E i \in LinesOf("version_fn") : f[i].text = "tag:") =>
        \E j \in LinesOf("define") :
            /\ f[j].name = TAG
            /\ RawStrBody(f[j].lit) # <<>>
            /\ RawStrBody(f[j].lit) = map[TAG].v

===========================================================================
